---- MODULE Spec2Model ----
(***************************************************************************)
(* A model of the Ethereum Node Record class ENR (src/src/enr/enr.ts).     *)
(*                                                                         *)
(* Buffers are sequences of bytes (0..255), strings are sequences of code  *)
(* points, a bigint is its minimal big-endian byte string (0n is <<>>),    *)
(* and an optional value is <<>> (absent) or <<v>> (present).              *)
(*                                                                         *)
(* Spec has every operation of the class; SpecTamper adds decode of bytes  *)
(* with one bit changed; SpecSize writes values large enough for the       *)
(* encoding to reach MAX_RECORD_SIZE.                                      *)
(***************************************************************************)
EXTENDS Integers, Sequences, FiniteSets, TLC

VARIABLES
    entries,    \* the Map's contents: <<key, value>> pairs in insertion order
    seq,        \* ENR.seq, a bigint
    signature,  \* ENR.signature: NoSig (null) or Some(bytes)
    wire,       \* the bytes the last call returned, when it was encode
    input,      \* the bytes the last call was given, when it was decode
    decoded,    \* the record the last call returned, when it was decode
    ma,         \* the Multiaddr an endpoint setter was given or a getter returned
    kv,         \* the key and value the last call was given, when it was set
    last        \* the last call: [op, err]; err = "none" when it returned

vars == <<entries, seq, signature, wire, input, decoded, ma, kv, last>>

NoSig == <<>>
Some(v) == <<v>>

(***************************************************************************)
(* Bytes, bits and bigints                                                 *)
(***************************************************************************)
RECURSIVE Concat(_)
Concat(ss) == IF ss = <<>> THEN <<>> ELSE Head(ss) \o Concat(Tail(ss))

Zeros(n) == [i \in 1..n |-> 0]

RECURSIVE StripZeros(_)
StripZeros(b) ==
    IF b = <<>> THEN <<>>
    ELSE IF b[1] = 0 THEN StripZeros(Tail(b)) ELSE b

\* minimal big-endian bytes of a small natural number
RECURSIVE IntToBytes(_)
IntToBytes(n) ==
    IF n = 0 THEN <<>> ELSE Append(IntToBytes(n \div 256), n % 256)

\* big-endian bytes (at most three) to a natural number
RECURSIVE BytesToInt(_)
BytesToInt(b) ==
    IF b = <<>> THEN 0
    ELSE BytesToInt(SubSeq(b, 1, Len(b) - 1)) * 256 + b[Len(b)]

\* this.seq++ on a bigint
RECURSIVE BigInc(_)
BigInc(b) ==
    IF b = <<>> THEN <<1>>
    ELSE IF b[Len(b)] < 255
         THEN [b EXCEPT ![Len(b)] = @ + 1]
         ELSE Append(BigInc(SubSeq(b, 1, Len(b) - 1)), 0)

RECURSIVE ByteBits(_, _)
ByteBits(v, n) ==
    IF n = 0 THEN <<>> ELSE Append(ByteBits(v \div 2, n - 1), v % 2)

RECURSIVE StripZeroBits(_)
StripZeroBits(b) ==
    IF b = <<>> THEN <<>>
    ELSE IF b[1] = 0 THEN StripZeroBits(Tail(b)) ELSE b

BytesToBits(b) == StripZeroBits(Concat([i \in 1..Len(b) |-> ByteBits(b[i], 8)]))

RECURSIVE BitsVal(_)
BitsVal(b) ==
    IF b = <<>> THEN 0
    ELSE 2 * BitsVal(SubSeq(b, 1, Len(b) - 1)) + b[Len(b)]

BitsToBytes(b) ==
    LET pad == (8 - (Len(b) % 8)) % 8
        p   == Zeros(pad) \o b
    IN  [i \in 1..(Len(p) \div 8) |-> BitsVal(SubSeq(p, 8 * i - 7, 8 * i))]

RECURSIVE BitInc(_)
BitInc(b) ==
    IF b = <<>> THEN <<1>>
    ELSE IF b[Len(b)] = 0
         THEN [b EXCEPT ![Len(b)] = 1]
         ELSE Append(BitInc(SubSeq(b, 1, Len(b) - 1)), 0)

\* the width of a double's significand
MANTISSA_BITS == 53

\* Number(bigint): the nearest double, ties to even; the result is an
\* integer-valued double, written again as a bigint
Number(b) ==
    LET bits == BytesToBits(b)
        L    == Len(bits)
    IN  IF L <= MANTISSA_BITS THEN StripZeros(b)
        ELSE LET m    == SubSeq(bits, 1, MANTISSA_BITS)
                 r    == SubSeq(bits, MANTISSA_BITS + 1, L)
                 more == \E i \in 2..Len(r) : r[i] = 1
                 up   == r[1] = 1 /\ (more \/ m[MANTISSA_BITS] = 1)
                 m2   == IF up THEN BitInc(m) ELSE m
             IN  BitsToBytes(m2 \o Zeros(Len(r)))

\* toBigIntBE(buf)
toBigIntBE(b) == StripZeros(b)

(***************************************************************************)
(* Strings: Buffer.from(string) and buf.toString() (UTF-8)                 *)
(***************************************************************************)
REPLACEMENT_CHAR == 65533

Utf8Char(c) ==
    IF c < 128 THEN <<c>>
    ELSE IF c < 2048 THEN <<192 + (c \div 64), 128 + (c % 64)>>
    ELSE <<224 + (c \div 4096), 128 + ((c \div 64) % 64), 128 + (c % 64)>>

\* Buffer.from(str): the UTF-8 bytes of a string
StringToBuffer(s) == Concat([i \in 1..Len(s) |-> Utf8Char(s[i])])

\* buf.toString(): ASCII bytes are themselves; a byte >= 0x80 that starts no
\* well-formed sequence decodes to U+FFFD (the model's buffers hold no
\* well-formed multi-byte sequence)
BufferToString(b) ==
    [i \in 1..Len(b) |-> IF b[i] < 128 THEN b[i] ELSE REPLACEMENT_CHAR]

(***************************************************************************)
(* String.prototype.localeCompare, on letters and digits: the collation    *)
(* compares the strings letter by letter ignoring case (digits before      *)
(* letters) and, when that ties, by case, lower case first.                *)
(***************************************************************************)
IsUpper(c) == c >= 65 /\ c <= 90

Primary(c) == IF IsUpper(c) THEN c + 32 ELSE c

Tertiary(c) == IF IsUpper(c) THEN 1 ELSE 0

\* lexicographic comparison of two sequences of numbers: -1, 0 or 1
RECURSIVE LexCompare(_, _)
LexCompare(a, b) ==
    IF a = <<>> THEN (IF b = <<>> THEN 0 ELSE -1)
    ELSE IF b = <<>> THEN 1
    ELSE IF a[1] < b[1] THEN -1
    ELSE IF a[1] > b[1] THEN 1
    ELSE LexCompare(Tail(a), Tail(b))

localeCompare(a, b) ==
    LET p == LexCompare([i \in 1..Len(a) |-> Primary(a[i])],
                        [i \in 1..Len(b) |-> Primary(b[i])])
    IN  IF p # 0 THEN p
        ELSE LexCompare([i \in 1..Len(a) |-> Tertiary(a[i])],
                        [i \in 1..Len(b) |-> Tertiary(b[i])])

\* Array.prototype.sort((a, b) => a.localeCompare(b)): a stable sort
RECURSIVE InsertSorted(_, _)
InsertSorted(sorted, k) ==
    IF sorted = <<>> THEN <<k>>
    ELSE IF localeCompare(k, Head(sorted)) < 0 THEN <<k>> \o sorted
    ELSE <<Head(sorted)>> \o InsertSorted(Tail(sorted), k)

RECURSIVE SortKeys(_)
SortKeys(ks) ==
    IF ks = <<>> THEN <<>>
    ELSE InsertSorted(SortKeys(SubSeq(ks, 1, Len(ks) - 1)), ks[Len(ks)])

(***************************************************************************)
(* The Map the record extends                                              *)
(***************************************************************************)
MapKeys(m) == [i \in 1..Len(m) |-> m[i][1]]

MapHas(m, k) == \E i \in 1..Len(m) : m[i][1] = k

\* Map.prototype.get: <<>> for undefined, <<value>> otherwise
MapGet(m, k) ==
    IF MapHas(m, k)
    THEN Some(m[CHOOSE i \in 1..Len(m) : m[i][1] = k][2])
    ELSE <<>>

\* Map.prototype.set: an existing key keeps its place
MapSet(m, k, v) ==
    IF MapHas(m, k)
    THEN [i \in 1..Len(m) |-> IF m[i][1] = k THEN <<k, v>> ELSE m[i]]
    ELSE Append(m, <<k, v>>)

RECURSIVE MapFromPairs(_)
MapFromPairs(ps) ==
    IF ps = <<>> THEN <<>>
    ELSE MapSet(MapFromPairs(SubSeq(ps, 1, Len(ps) - 1)),
                ps[Len(ps)][1], ps[Len(ps)][2])

(***************************************************************************)
(* RLP (the Canonical Codec)                                               *)
(***************************************************************************)
RLP_SHORT_MAX == 55

RlpHeader(base, n) ==
    IF n <= RLP_SHORT_MAX THEN <<base + n>>
    ELSE <<base + RLP_SHORT_MAX + Len(IntToBytes(n))>> \o IntToBytes(n)

\* a byte string
RlpItem(b) ==
    IF Len(b) = 1 /\ b[1] < 128 THEN b ELSE RlpHeader(128, Len(b)) \o b

\* RLP.encode(list of byte strings)
RlpEncode(items) ==
    LET payload == Concat([i \in 1..Len(items) |-> RlpItem(items[i])])
    IN  RlpHeader(192, Len(payload)) \o payload

RlpBad == [ok |-> FALSE, items |-> <<>>]

\* the length of a header at the front of b, and the payload length it
\* declares: [ok, hdr, len]; base is 128 (string) or 192 (list)
RlpLength(b, base) ==
    LET f == b[1] - base
    IN  IF f <= RLP_SHORT_MAX THEN [ok |-> TRUE, hdr |-> 1, len |-> f]
        ELSE LET ll == f - RLP_SHORT_MAX
                 lb == SubSeq(b, 2, 1 + ll)
             IN  IF ll > 3 \/ Len(b) < 1 + ll \/ lb[1] = 0
                    \/ BytesToInt(lb) <= RLP_SHORT_MAX
                 THEN [ok |-> FALSE, hdr |-> 0, len |-> 0]
                 ELSE [ok |-> TRUE, hdr |-> 1 + ll, len |-> BytesToInt(lb)]

\* the byte strings a list payload holds; not ok when an item is truncated,
\* is not in its shortest form, or is itself a list (a record holds none)
RECURSIVE RlpItems(_)
RlpItems(b) ==
    IF b = <<>> THEN [ok |-> TRUE, items |-> <<>>]
    ELSE IF b[1] < 128
    THEN LET rest == RlpItems(Tail(b))
         IN  IF rest.ok THEN [ok |-> TRUE, items |-> <<<<b[1]>>>> \o rest.items]
             ELSE RlpBad
    ELSE IF b[1] >= 192 THEN RlpBad
    ELSE LET h == RlpLength(b, 128)
         IN  IF ~h.ok \/ Len(b) < h.hdr + h.len THEN RlpBad
             ELSE LET s    == SubSeq(b, h.hdr + 1, h.hdr + h.len)
                      rest == RlpItems(SubSeq(b, h.hdr + h.len + 1, Len(b)))
                  IN  IF (h.len = 1 /\ s[1] < 128) \/ ~rest.ok THEN RlpBad
                      ELSE [ok |-> TRUE, items |-> <<s>> \o rest.items]

\* RLP.decode(bytes) of a record: [ok, items]; not ok when the bytes are not
\* the encoding of a list of byte strings
RlpDecode(b) ==
    IF b = <<>> \/ b[1] < 192 THEN RlpBad
    ELSE LET h == RlpLength(b, 192)
         IN  IF ~h.ok \/ Len(b) # h.hdr + h.len THEN RlpBad
             ELSE RlpItems(SubSeq(b, h.hdr + 1, Len(b)))

(***************************************************************************)
(* The identity scheme "v4" (src/enr/v4.ts): an ideal signature scheme.    *)
(* A signature names the private key and the message it was made over, so  *)
(* that it verifies under the matching public key for that message only.   *)
(***************************************************************************)
v4_publicKey(privateKey) == <<2>> \o privateKey

v4_sign(privateKey, data) == privateKey \o data

v4_verify(publicKey, data, sig) ==
    /\ Len(sig) >= 1
    /\ v4_publicKey(SubSeq(sig, 1, 1)) = publicKey
    /\ sig = v4_sign(SubSeq(sig, 1, 1), data)

(***************************************************************************)
(* Keys, values and errors                                                 *)
(***************************************************************************)
K_id        == <<105, 100>>
K_secp256k1 == <<115, 101, 99, 112, 50, 53, 54, 107, 49>>
K_ip        == <<105, 112>>
K_ip6       == <<105, 112, 54>>
K_udp       == <<117, 100, 112>>
K_udp6      == <<117, 100, 112, 54>>
K_tcp       == <<116, 99, 112>>
K_tcp6      == <<116, 99, 112, 54>>
STR_v4      == <<118, 52>>

ERR_INVALID_ID   == "UnsupportedIdentityScheme"
ERR_NO_SIGNATURE == "NoSignature"
MAX_RECORD_SIZE  == 300

(***************************************************************************)
(* class ENR                                                               *)
(***************************************************************************)
\* constructor(kvs, seq, signature)
ENR(kvs, s, sig) ==
    [entries |-> MapFromPairs(kvs), seq |-> s, signature |-> sig]

\* static createV4(publicKey, kvs)
createV4(publicKey, kvs) ==
    ENR(kvs \o << <<K_id, StringToBuffer(STR_v4)>>,
                  <<K_secp256k1, publicKey>> >>,
        <<1>>, NoSig)

\* set that takes a write of the value already stored for no change
set_SkipsSameValue(r, k, v) ==
    IF MapGet(r.entries, k) = Some(v) THEN r
    ELSE [entries   |-> MapSet(r.entries, k, v),
          seq       |-> BigInc(r.seq),
          signature |-> NoSig]

\* set(k, v)
set(r, k, v) ==
    [entries   |-> MapSet(r.entries, k, v),
     seq       |-> BigInc(r.seq),
     signature |-> NoSig]

\* get id(): [err, val]
id(r) ==
    LET v == MapGet(r.entries, K_id)
    IN  IF v = <<>> THEN [err |-> "TypeError", val |-> <<>>]
        ELSE [err |-> "none", val |-> BufferToString(v[1])]

\* get publicKey(): [err, val], val the optional "secp256k1" entry
publicKey(r) ==
    LET i == id(r)
    IN  IF i.err # "none" THEN [err |-> i.err, val |-> <<>>]
        ELSE IF i.val = STR_v4
        THEN [err |-> "none", val |-> MapGet(r.entries, K_secp256k1)]
        ELSE [err |-> ERR_INVALID_ID, val |-> <<>>]

\* verify(data, signature): [err, val]
verify(r, data, sig) ==
    LET pk == publicKey(r)
    IN  IF pk.err # "none" THEN [err |-> pk.err, val |-> FALSE]
        ELSE [err |-> "none",
              val |-> pk.val # <<>> /\ v4_verify(pk.val[1], data, sig)]

\* sign that counts the new signature as a change of the record
sign_BumpsSeq(r, data, privateKey) ==
    LET sig == v4_sign(privateKey, data)
    IN  IF id(r).err # "none" \/ id(r).val # STR_v4
        THEN [err |-> ERR_INVALID_ID, enr |-> r, out |-> <<>>]
        ELSE [err |-> "none",
              enr |-> [r EXCEPT !.signature = Some(sig), !.seq = BigInc(@)],
              out |-> sig]

\* sign(data, privateKey): [err, enr, out]
sign(r, data, privateKey) ==
    LET i == id(r)
    IN  IF i.err # "none" THEN [err |-> i.err, enr |-> r, out |-> <<>>]
        ELSE IF i.val = STR_v4
        THEN LET sig == v4_sign(privateKey, data)
             IN  [err |-> "none",
                  enr |-> [r EXCEPT !.signature = Some(sig)],
                  out |-> sig]
        ELSE [err |-> ERR_INVALID_ID, enr |-> r, out |-> <<>>]

\* the content list encode builds, before the signature is put in front:
\* [Number(seq), k0, v0, k1, v1, ...] with the keys sorted
Content(r) ==
    LET ks == SortKeys(MapKeys(r.entries))
    IN  <<Number(r.seq)>> \o
        Concat([i \in 1..Len(ks) |->
                  <<StringToBuffer(ks[i]), MapGet(r.entries, ks[i])[1]>>])

\* encode whose size check lets a record of MAX_RECORD_SIZE bytes through
encode_OffByOne(r, privateKey) ==
    LET content == Content(r)
        s  == IF privateKey # <<>>
              THEN sign(r, RlpEncode(content), privateKey[1])
              ELSE IF r.signature = NoSig
                   THEN [err |-> ERR_NO_SIGNATURE, enr |-> r, out |-> <<>>]
                   ELSE [err |-> "none", enr |-> r, out |-> r.signature[1]]
        encoded == RlpEncode(<<s.out>> \o content)
    IN  IF s.err # "none" THEN s
        ELSE IF ~(Len(encoded) <= MAX_RECORD_SIZE)
        THEN [err |-> "RecordTooLarge", enr |-> s.enr, out |-> <<>>]
        ELSE [err |-> "none", enr |-> s.enr, out |-> encoded]

\* encode that puts an empty signature first when the record has none
encode_SkipsSignatureCheck(r, privateKey) ==
    LET content == Content(r)
        s  == IF privateKey # <<>>
              THEN sign(r, RlpEncode(content), privateKey[1])
              ELSE IF r.signature = NoSig
                   THEN [err |-> "none", enr |-> r, out |-> <<>>]
                   ELSE [err |-> "none", enr |-> r, out |-> r.signature[1]]
        encoded == RlpEncode(<<s.out>> \o content)
    IN  IF s.err # "none" THEN s
        ELSE IF ~(Len(encoded) < MAX_RECORD_SIZE)
        THEN [err |-> "RecordTooLarge", enr |-> s.enr, out |-> <<>>]
        ELSE [err |-> "none", enr |-> s.enr, out |-> encoded]

\* encode(privateKey?): [err, enr, out]; privateKey is <<>> when not given
encode(r, privateKey) ==
    LET content == Content(r)
        s  == IF privateKey # <<>>
              THEN sign(r, RlpEncode(content), privateKey[1])
              ELSE IF r.signature = NoSig
                   THEN [err |-> ERR_NO_SIGNATURE, enr |-> r, out |-> <<>>]
                   ELSE [err |-> "none", enr |-> r, out |-> r.signature[1]]
        encoded == RlpEncode(<<s.out>> \o content)
    IN  IF s.err # "none" THEN s
        ELSE IF ~(Len(encoded) < MAX_RECORD_SIZE)
        THEN [err |-> "RecordTooLarge", enr |-> s.enr, out |-> <<>>]
        ELSE [err |-> "none", enr |-> s.enr, out |-> encoded]

\* decode that returns the record without looking at what verify returned
decode_Unverified(encoded) ==
    LET d   == RlpDecode(encoded)
        n   == Len(d.items)
        kvs == SubSeq(d.items, 3, n)
        obj == [i \in 1..(Len(kvs) \div 2) |->
                  <<BufferToString(kvs[2 * i - 1]), kvs[2 * i]>>]
        enr == ENR(obj, toBigIntBE(d.items[2]), Some(d.items[1]))
        v   == verify(enr, RlpEncode(SubSeq(d.items, 2, n)), d.items[1])
        none == ENR(<<>>, <<>>, NoSig)
    IN  IF ~d.ok \/ n % 2 # 0 THEN [err |-> "MalformedRecord", enr |-> none]
        ELSE IF n = 0 THEN [err |-> "TypeError", enr |-> none]
        ELSE IF v.err # "none" THEN [err |-> v.err, enr |-> none]
        ELSE [err |-> "none", enr |-> enr]

\* static decode(encoded): [err, enr]
decode(encoded) ==
    LET d   == RlpDecode(encoded)
        n   == Len(d.items)
        kvs == SubSeq(d.items, 3, n)
        obj == [i \in 1..(Len(kvs) \div 2) |->
                  <<BufferToString(kvs[2 * i - 1]), kvs[2 * i]>>]
        enr == ENR(obj, toBigIntBE(d.items[2]), Some(d.items[1]))
        v   == verify(enr, RlpEncode(SubSeq(d.items, 2, n)), d.items[1])
        none == ENR(<<>>, <<>>, NoSig)
    IN  IF ~d.ok \/ n % 2 # 0 THEN [err |-> "MalformedRecord", enr |-> none]
        ELSE IF n = 0 THEN [err |-> "TypeError", enr |-> none]
        ELSE IF v.err # "none" THEN [err |-> v.err, enr |-> none]
        ELSE IF ~v.val THEN [err |-> "InvalidSignature", enr |-> none]
        ELSE [err |-> "none", enr |-> enr]

(***************************************************************************)
(* Multiaddr: [names, tuples], as protoNames() and tuples() return them.   *)
(* An optional Multiaddr is <<>> (undefined) or <<m>>.                     *)
(***************************************************************************)
CODE_IP4 == 4
CODE_TCP == 6
CODE_IP6 == 41
CODE_UDP == 273

DigitChar(d) == IF d < 10 THEN 48 + d ELSE 87 + d

DigitVal(c) == IF c >= 48 /\ c <= 57 THEN c - 48 ELSE c - 87

\* n.toString(base)
RECURSIVE ToText(_, _)
ToText(n, base) ==
    IF n < base THEN <<DigitChar(n)>>
    ELSE Append(ToText(n \div base, base), DigitChar(n % base))

RECURSIVE ParseText(_, _)
ParseText(t, base) ==
    IF t = <<>> THEN 0
    ELSE ParseText(SubSeq(t, 1, Len(t) - 1), base) * base + DigitVal(t[Len(t)])

\* array.join(sep)
RECURSIVE Join(_, _)
Join(parts, sep) ==
    IF parts = <<>> THEN <<>>
    ELSE IF Len(parts) = 1 THEN parts[1]
    ELSE parts[1] \o <<sep>> \o Join(Tail(parts), sep)

\* string.split(sep)
RECURSIVE Split(_, _)
Split(t, sep) ==
    IF \A i \in 1..Len(t) : t[i] # sep THEN <<t>>
    ELSE LET i == CHOOSE j \in 1..Len(t) :
                    t[j] = sep /\ \A l \in 1..(j - 1) : t[l] # sep
         IN  <<SubSeq(t, 1, i - 1)>> \o Split(SubSeq(t, i + 1, Len(t)), sep)

\* Multiaddr("/ip4/<address>/<transport>/<port>"): <<>> when it throws
MultiaddrIp4(addrText, transport, code, port) ==
    LET parts == Split(addrText, 46)
    IN  IF Len(parts) = 4
           /\ \A i \in 1..4 : Len(parts[i]) \in 1..3 /\ ParseText(parts[i], 10) <= 255
        THEN Some([names  |-> <<"ip4", transport>>,
                   tuples |-> << <<CODE_IP4, [i \in 1..4 |-> ParseText(parts[i], 10)]>>,
                                 <<code, <<port \div 256, port % 256>> >> >>])
        ELSE <<>>

\* Multiaddr("/ip6/<address>/<transport>/<port>"): <<>> when it throws
MultiaddrIp6(addrText, transport, code, port) ==
    LET parts == Split(addrText, 58)
    IN  IF Len(parts) = 8 /\ \A i \in 1..8 : Len(parts[i]) \in 1..4
        THEN Some([names  |-> <<"ip6", transport>>,
                   tuples |-> << <<CODE_IP6,
                                   Concat([i \in 1..8 |->
                                      <<ParseText(parts[i], 16) \div 256,
                                        ParseText(parts[i], 16) % 256>>])>>,
                                 <<code, <<port \div 256, port % 256>> >> >>])
        ELSE <<>>

\* the body the two endpoint getters share: [err, val], val an optional Multiaddr
EndpointGet(r, k4, k6, transport, code) ==
    LET ip4 == MapGet(r.entries, K_ip)
        p4  == MapGet(r.entries, k4)
        ip6 == MapGet(r.entries, K_ip6)
        p6  == MapGet(r.entries, k6)
        readUInt16BE(b) == b[1] * 256 + b[2]
        made(m) == IF m = <<>> THEN [err |-> "InvalidAddress", val |-> <<>>]
                   ELSE [err |-> "none", val |-> m]
    IN  IF ip4 # <<>> /\ p4 # <<>>
        THEN IF Len(p4[1]) < 2 THEN [err |-> "RangeError", val |-> <<>>]
             ELSE made(MultiaddrIp4(
                      Join([i \in 1..Len(ip4[1]) |-> ToText(ip4[1][i], 10)], 46),
                      transport, code, readUInt16BE(p4[1])))
        ELSE IF ip6 # <<>> /\ p6 # <<>>
        THEN IF Len(p6[1]) < 2 THEN [err |-> "RangeError", val |-> <<>>]
             ELSE made(MultiaddrIp6(
                      Join([i \in 1..Len(ip6[1]) |-> ToText(ip6[1][i], 16)], 58),
                      transport, code, readUInt16BE(p6[1])))
        ELSE [err |-> "none", val |-> <<>>]

\* the UDP getter reading the TCP port entries
multiaddrUDP_get_ReadsTcp(r) == EndpointGet(r, K_tcp, K_tcp6, "udp", CODE_UDP)

\* get multiaddrUDP()
multiaddrUDP_get(r) == EndpointGet(r, K_udp, K_udp6, "udp", CODE_UDP)

\* get multiaddrTCP()
multiaddrTCP_get(r) == EndpointGet(r, K_tcp, K_tcp6, "tcp", CODE_TCP)

\* protoNames[1] of the source: the second name, or undefined
SecondName(m) == IF Len(m.names) >= 2 THEN m.names[2] ELSE "undefined"

\* the writes the two endpoint setters share
EndpointWrite(r, m, k4, k6) ==
    IF m.tuples[1][1] = CODE_IP4
    THEN set(set(r, K_ip, m.tuples[1][2]), k4, m.tuples[2][2])
    ELSE set(set(r, K_ip6, m.tuples[1][2]), k6, m.tuples[2][2])

\* set multiaddrUDP(multiaddr): [err, enr]
multiaddrUDP_set(r, multiaddr) ==
    IF multiaddr = <<>> THEN [err |-> "none", enr |-> r]
    ELSE IF Len(multiaddr[1].names) # 2 /\ SecondName(multiaddr[1]) # "udp"
    THEN [err |-> "InvalidEndpoint", enr |-> r]
    ELSE [err |-> "none", enr |-> EndpointWrite(r, multiaddr[1], K_udp, K_udp6)]

\* set multiaddrTCP(multiaddr): [err, enr]
multiaddrTCP_set(r, multiaddr) ==
    IF multiaddr = <<>> THEN [err |-> "none", enr |-> r]
    ELSE IF Len(multiaddr[1].names) # 2 /\ SecondName(multiaddr[1]) # "tcp"
    THEN [err |-> "InvalidEndpoint", enr |-> r]
    ELSE [err |-> "none", enr |-> EndpointWrite(r, multiaddr[1], K_tcp, K_tcp6)]

(***************************************************************************)
(* The inputs the calls are made with                                      *)
(***************************************************************************)
\* the length of the large value, and the cap on the sequence number's low
\* byte past which the model stops writing entries
BigLen  == 123
MaxBump == 3

K_a == <<97>>
K_B == <<66>>

PrivateKeys == {<<7>>, <<9>>}
PUB         == v4_publicKey(<<7>>)

TWO_53 == <<32, 0, 0, 0, 0, 0, 0>>

V4Pairs == << <<K_id, StringToBuffer(STR_v4)>>, <<K_secp256k1, PUB>> >>

InitKvs ==
    { <<>>,
      V4Pairs,
      V4Pairs \o << <<K_a, <<1>> >>, <<K_B, <<2>> >> >>,
      << <<K_B, <<2>> >>, <<K_a, <<1>> >> >> \o V4Pairs,
      << <<K_id, <<118, 53>> >>, <<K_secp256k1, PUB>> >> }

InitSeqs == {<<1>>, TWO_53}

InitSigs == {NoSig, Some(<<7, 1, 2>>)}

SetKeys == {K_a, K_B}

Values == {<<1>>}

BigValues == {Zeros(BigLen), Zeros(BigLen - 1)}

Ip4(a, transport, code, port) ==
    [names  |-> <<"ip4", transport>>,
     tuples |-> << <<CODE_IP4, a>>, <<code, <<port \div 256, port % 256>> >> >>]

\* IPv4 endpoints: <<address, port>>
Endpoints4 ==
    { <<<<192, 0, 2, 1>>, 30303>>,
      <<<<0, 0, 0, 255>>, 255>>,
      <<<<255, 255, 255, 255>>, 65535>>,
      <<<<10, 0, 0, 1>>, 0>> }

\* what a caller hands to sign: any bytes of its choosing
SignData == {<<1>>}

Multiaddrs ==
    {<<>>}
    \cup {Some(Ip4(e[1], "udp", CODE_UDP, e[2])) : e \in Endpoints4}
    \cup {Some(Ip4(<<192, 0, 2, 1>>, "tcp", CODE_TCP, 30303)),
          Some([names |-> <<"ip4">>, tuples |-> << <<CODE_IP4, <<192, 0, 2, 1>> >> >>]),
          Some([names  |-> <<"ip6", "udp">>,
                tuples |-> << <<CODE_IP6, Zeros(15) \o <<1>> >>,
                              <<CODE_UDP, <<118, 95>> >> >>]),
          Some([names  |-> <<"ip4", "tcp", "ws">>,
                tuples |-> << <<CODE_IP4, <<192, 0, 2, 1>> >>,
                              <<CODE_TCP, <<118, 95>> >>, <<477>> >>])}

LowByte(s) == IF s = <<>> THEN 0 ELSE s[Len(s)]

\* one bit of one byte changed
FlipBit(w, i, bit) ==
    [w EXCEPT ![i] = IF (@ \div bit) % 2 = 1 THEN @ - bit ELSE @ + bit]

TamperBits == {1, 128}

(***************************************************************************)
(* The state machine: one record and the calls made on it                  *)
(***************************************************************************)
This == [entries |-> entries, seq |-> seq, signature |-> signature]

Becomes(r) ==
    /\ entries' = r.entries
    /\ seq' = r.seq
    /\ signature' = r.signature

\* the call neither returns bytes or a record nor was given bytes
Idle == wire' = <<>> /\ input' = <<>> /\ decoded' = <<>>

Init ==
    /\ \E kvs \in InitKvs, s \in InitSeqs, sig \in InitSigs :
          \/ /\ entries = ENR(kvs, s, sig).entries
             /\ seq = ENR(kvs, s, sig).seq
             /\ signature = ENR(kvs, s, sig).signature
          \/ /\ entries = createV4(PUB, kvs).entries
             /\ seq = createV4(PUB, kvs).seq
             /\ signature = createV4(PUB, kvs).signature
    /\ wire = <<>>
    /\ input = <<>>
    /\ decoded = <<>>
    /\ ma = <<>>
    /\ kv = <<>>
    /\ last = [op |-> "new", err |-> "none"]

Set ==
    /\ LowByte(seq) + 1 <= MaxBump
    /\ \E k \in SetKeys, v \in Values :
          /\ Becomes(set(This, k, v))
          /\ kv' = <<k, v>>
    /\ Idle /\ ma' = <<>>
    /\ last' = [op |-> "set", err |-> "none"]

\* set of a large value
SetBig ==
    /\ LowByte(seq) + 1 <= MaxBump
    /\ \E k \in SetKeys, v \in BigValues :
          /\ Becomes(set(This, k, v))
          /\ kv' = <<k, v>>
    /\ Idle /\ ma' = <<>>
    /\ last' = [op |-> "set", err |-> "none"]

SetMultiaddrUDP ==
    \E m \in Multiaddrs :
        LET res == multiaddrUDP_set(This, m)
        IN  /\ LowByte(seq) + 2 <= MaxBump
            /\ Becomes(res.enr)
            /\ Idle /\ ma' = m /\ kv' = <<>>
            /\ last' = [op |-> "setUDP", err |-> res.err]

SetMultiaddrTCP ==
    \E m \in Multiaddrs :
        LET res == multiaddrTCP_set(This, m)
        IN  /\ LowByte(seq) + 2 <= MaxBump
            /\ Becomes(res.enr)
            /\ Idle /\ ma' = m /\ kv' = <<>>
            /\ last' = [op |-> "setTCP", err |-> res.err]

GetMultiaddrUDP ==
    LET res == multiaddrUDP_get(This)
    IN  /\ UNCHANGED <<entries, seq, signature>>
        /\ Idle /\ kv' = <<>>
        /\ ma' = res.val
        /\ last' = [op |-> "getUDP", err |-> res.err]

GetMultiaddrTCP ==
    LET res == multiaddrTCP_get(This)
    IN  /\ UNCHANGED <<entries, seq, signature>>
        /\ Idle /\ kv' = <<>>
        /\ ma' = res.val
        /\ last' = [op |-> "getTCP", err |-> res.err]

Sign ==
    \E k \in PrivateKeys, data \in SignData :
        LET res == sign(This, data, k)
        IN  /\ Becomes(res.enr)
            /\ Idle /\ ma' = <<>> /\ kv' = <<>>
            /\ last' = [op |-> "sign", err |-> res.err]

Verify ==
    /\ signature # NoSig
    /\ LET res == verify(This, RlpEncode(Content(This)), signature[1])
       IN  /\ UNCHANGED <<entries, seq, signature>>
           /\ Idle /\ ma' = <<>> /\ kv' = <<>>
           /\ last' = [op  |-> IF res.val THEN "verify:true" ELSE "verify:false",
                       err |-> res.err]

Encode ==
    \E pk \in {<<>>} \cup {Some(k) : k \in PrivateKeys} :
        LET res == encode(This, pk)
        IN  /\ Becomes(res.enr)
            /\ wire' = res.out
            /\ input' = <<>> /\ decoded' = <<>> /\ ma' = <<>> /\ kv' = <<>>
            /\ last' = [op  |-> IF pk = <<>> THEN "encode" ELSE "encodeWithKey",
                        err |-> res.err]

\* the positions of the encoded record outside its signature item: the list
\* header, and everything after the signature
NonSignature(w) ==
    LET h == RlpLength(w, 192).hdr
        p == SubSeq(w, h + 1, Len(w))
        n == IF p[1] < 128 THEN 1
             ELSE RlpLength(p, 128).hdr + RlpLength(p, 128).len
    IN  (1..h) \cup ((h + n + 1)..Len(w))

DecodeOf(bytes) ==
    LET res == decode(bytes)
    IN  /\ input' = bytes
        /\ decoded' = IF res.err = "none" THEN Some(res.enr) ELSE <<>>
        /\ last' = [op |-> "decode", err |-> res.err]
        /\ UNCHANGED <<entries, seq, signature, wire, ma, kv>>

\* decode of the bytes encode has just returned
Decode ==
    /\ last.op \in {"encode", "encodeWithKey"}
    /\ wire # <<>>
    /\ DecodeOf(wire)

\* decode of the bytes encode has just returned, with one bit outside the
\* signature changed
DecodeTampered ==
    /\ last.op \in {"encode", "encodeWithKey"}
    /\ wire # <<>>
    /\ \E i \in NonSignature(wire), b \in TamperBits : DecodeOf(FlipBit(wire, i, b))

Next ==
    \/ Set
    \/ SetMultiaddrUDP
    \/ SetMultiaddrTCP
    \/ GetMultiaddrUDP
    \/ GetMultiaddrTCP
    \/ Sign
    \/ Verify
    \/ Encode
    \/ Decode

Spec == Init /\ [][Next]_vars

NextTamper ==
    \/ Set
    \/ Sign
    \/ Encode
    \/ Decode
    \/ DecodeTampered

SpecTamper == Init /\ [][NextTamper]_vars

NextSize ==
    \/ Set
    \/ SetBig
    \/ Encode
    \/ Decode

SpecSize == Init /\ [][NextSize]_vars

(***************************************************************************)
(* Notions the properties are stated with                                  *)
(***************************************************************************)
SetOps == {"set", "setUDP", "setTCP"}

EncodeOps == {"encode", "encodeWithKey"}

\* a + 1 on bigints: the last byte below 255 goes up by one and the bytes
\* after it become zero
PlusOne(a) ==
    IF \A j \in 1..Len(a) : a[j] = 255 THEN <<1>> \o Zeros(Len(a))
    ELSE LET i == CHOOSE l \in 1..Len(a) :
                    a[l] < 255 /\ \A j \in (l + 1)..Len(a) : a[j] = 255
         IN  [j \in 1..Len(a) |->
                IF j < i THEN a[j] ELSE IF j = i THEN a[i] + 1 ELSE 0]

IsSucc(a, b) == b = PlusOne(a)

\* the entries of a record, as a mapping
EntrySet(m) == {m[i] : i \in 1..Len(m)}

\* byte-wise lexicographic order on keys
ByteLess(a, b) == LexCompare(StringToBuffer(a), StringToBuffer(b)) < 0

\* the keys of m in byte-wise order
ByteSorted(m) ==
    [i \in 1..Len(m) |->
        CHOOSE k \in {m[j][1] : j \in 1..Len(m)} :
            Cardinality({l \in {m[j][1] : j \in 1..Len(m)} : ByteLess(l, k)}) = i - 1]

\* [seq, k0, v0, ...] with the sequence number as it is and the keys in
\* byte-wise order
CanonicalContent(m, s) ==
    <<s>> \o Concat([i \in 1..Len(m) |->
                       <<StringToBuffer(ByteSorted(m)[i]),
                         MapGet(m, ByteSorted(m)[i])[1]>>])

(***************************************************************************)
(* C1: one call of set(key, value), the value being new or the one already *)
(* stored, leaves the signature absent and the sequence number exactly one *)
(* greater, and stores the value under the key.                            *)
(***************************************************************************)
C1_SetInvalidatesAndBumps ==
    [][last'.op = "set" =>
          /\ signature' = NoSig
          /\ IsSucc(seq, seq')
          /\ MapGet(entries', kv'[1]) = Some(kv'[2])
          /\ \A k \in {entries[i][1] : i \in 1..Len(entries)} \ {kv'[1]} :
                MapGet(entries', k) = MapGet(entries, k)]_vars

\* a second set of the same key to the same value has been made on the
\* record constructed empty with the default sequence number
C1_Witness ==
    /\ last.op = "set"
    /\ Len(entries) = 1
    /\ seq = <<3>>
    /\ signature = NoSig

(***************************************************************************)
(* C2: in every reachable state, a signature that is present verifies      *)
(* against the canonical encoding of the entries and the sequence number   *)
(* the record holds (every write of an entry clears the signature, so they *)
(* are the ones it held when the signature was set).                       *)
(***************************************************************************)
C2_SignatureIsOverTheRecord ==
    signature # NoSig =>
        verify(This, RlpEncode(CanonicalContent(entries, seq)), signature[1]).val

(***************************************************************************)
(* C3: decode returns a record only if the signature it decoded verifies,  *)
(* under the record's scheme and public key, against the encoding of the   *)
(* rest of the list; when the verification says no, it fails with          *)
(* InvalidSignature, and a failing decode returns no record.  Hence the    *)
(* bytes of a record that decodes, with a bit outside the signature        *)
(* changed, do not decode.                                                 *)
(***************************************************************************)
C3_DecodeReturnsVerifiedOnly ==
    last.op = "decode" =>
        LET d == RlpDecode(input)
            v == verify(decoded[1], RlpEncode(Tail(d.items)), d.items[1])
            c == ENR([i \in 1..((Len(d.items) - 2) \div 2) |->
                        <<BufferToString(d.items[2 * i + 1]), d.items[2 * i + 2]>>],
                     toBigIntBE(d.items[2]), Some(d.items[1]))
        IN  /\ last.err = "none" =>
                /\ d.ok /\ Len(d.items) >= 2
                /\ decoded = Some(c)
                /\ v.err = "none" /\ v.val
            /\ last.err # "none" => decoded = <<>>
            /\ (d.ok /\ Len(d.items) >= 2 /\ Len(d.items) % 2 = 0
                  /\ verify(c, RlpEncode(Tail(d.items)), d.items[1]).err = "none"
                  /\ ~verify(c, RlpEncode(Tail(d.items)), d.items[1]).val)
                => last.err = "InvalidSignature"
            /\ (input # wire /\ decode(wire).err = "none") => last.err # "none"

\* a record that decodes has been refused with one bit of its entries changed
C3_Witness ==
    /\ last.op = "decode"
    /\ input # wire
    /\ decode(wire).err = "none"
    /\ last.err = "InvalidSignature"

(***************************************************************************)
(* C4: a record signed with the private key of its public key survives the *)
(* round trip: decode of what encode returned succeeds and yields the same *)
(* entries, sequence number and signature.                                 *)
(***************************************************************************)
C4_RoundTrip ==
    (/\ last.op = "decode"
     /\ input = wire
     /\ verify(This, RlpEncode(Content(This)), signature[1]).val)
    => /\ last.err = "none"
       /\ EntrySet(decoded[1].entries) = EntrySet(entries)
       /\ decoded[1].seq = seq
       /\ decoded[1].signature = signature

(***************************************************************************)
(* C5: the bytes encode returns list the keys in byte-wise lexicographic   *)
(* order (so they do not depend on the order of insertion).                *)
(***************************************************************************)
C5_ByteWiseKeyOrder ==
    (last.op \in EncodeOps /\ last.err = "none") =>
        wire = RlpEncode(<<signature[1]>> \o
                         CanonicalContent(entries, Number(seq)))

(***************************************************************************)
(* C6: when encode gets as far as the full list [signature, seq, k0, v0,   *)
(* ...], it fails with RecordTooLarge and returns nothing exactly when the *)
(* encoding of that list is 300 bytes or longer; the bytes it returns are  *)
(* that encoding, whole, and shorter than 300 bytes.                       *)
(***************************************************************************)
C6_SizeCeiling ==
    last.op \in EncodeOps =>
        LET full == RlpEncode(<<signature[1]>> \o Content(This))
        IN  /\ last.err = "none" => wire = full /\ Len(wire) < 300
            /\ last.err # "none" => wire = <<>>
            /\ last.err \in {"none", "RecordTooLarge"} =>
                  (Len(full) >= 300 <=> last.err = "RecordTooLarge")

\* encode has refused a record of 300 bytes or more
C6_Witness ==
    /\ last.op \in EncodeOps
    /\ last.err = "RecordTooLarge"
    /\ Len(RlpEncode(<<signature[1]>> \o Content(This))) >= 300

(***************************************************************************)
(* C7: the UDP (TCP) endpoint setter refuses, with InvalidEndpoint, every  *)
(* address that does not have exactly two segments, the second being udp   *)
(* (tcp).                                                                  *)
(***************************************************************************)
C7_SetterRejectsMalformed ==
    /\ (last.op = "setUDP" /\ ma # <<>>
          /\ ~(Len(ma[1].names) = 2 /\ SecondName(ma[1]) = "udp"))
       => last.err = "InvalidEndpoint"
    /\ (last.op = "setTCP" /\ ma # <<>>
          /\ ~(Len(ma[1].names) = 2 /\ SecondName(ma[1]) = "tcp"))
       => last.err = "InvalidEndpoint"

(***************************************************************************)
(* C8: after the UDP endpoint setter is given an IPv4/UDP endpoint, the    *)
(* record holds the four address bytes under "ip" and the port, two bytes  *)
(* big-endian, under "udp", and the UDP endpoint getter returns the same   *)
(* address and port.                                                       *)
(***************************************************************************)
IsIp4Udp(m) ==
    /\ m # <<>>
    /\ m[1].names = <<"ip4", "udp">>

PortOf(m) == m[1].tuples[2][2][1] * 256 + m[1].tuples[2][2][2]

C8_EndpointRoundTrip ==
    [][(last.op = "setUDP" /\ IsIp4Udp(ma)) =>
          /\ last.err = "none"
          /\ MapGet(entries, K_ip) = Some(ma[1].tuples[1][2])
          /\ Len(ma[1].tuples[1][2]) = 4
          /\ MapGet(entries, K_udp) =
                Some(<<PortOf(ma) \div 256, PortOf(ma) % 256>>)
          /\ last'.op = "getUDP" =>
                /\ last'.err = "none"
                /\ IsIp4Udp(ma')
                /\ ma'[1].tuples[1][2] = ma[1].tuples[1][2]
                /\ PortOf(ma') = PortOf(ma)]_vars

\* the getter has returned 192.0.2.1, port 30303
C8_Witness ==
    /\ last.op = "getUDP"
    /\ last.err = "none"
    /\ ma = Some(Ip4(<<192, 0, 2, 1>>, "udp", CODE_UDP, 30303))

(***************************************************************************)
(* C9: encode without a private key fails with NoSignature exactly when    *)
(* the signature is absent, and otherwise puts the stored signature first; *)
(* a write of an entry leaves the signature absent, and only sign or an    *)
(* encode with a private key makes it present again.                       *)
(***************************************************************************)
C9_NoSignatureUntilSigned ==
    [][/\ last'.op = "encode" =>
            /\ signature' = signature
            /\ last'.err = "NoSignature" <=> signature = NoSig
            /\ last'.err = "none" =>
                  RlpDecode(wire').items[1] = signature[1]
       /\ (last'.op \in SetOps /\ last'.err = "none" /\ ma' # <<>>) =>
            signature' = NoSig
       /\ last'.op = "set" => signature' = NoSig
       /\ (signature = NoSig /\ signature' # NoSig) =>
            last'.op \in {"encodeWithKey", "sign"}]_vars

\* encode without a private key has failed on a record an endpoint setter
\* wrote to
C9_Witness ==
    /\ last.op = "encode"
    /\ last.err = "NoSignature"
    /\ MapHas(entries, K_udp)

(***************************************************************************)
(* C10: the sequence number changes only in set, by one for each call (an  *)
(* endpoint setter that writes makes two); every other call leaves the     *)
(* sequence number and the entries as they are, and encode changes nothing *)
(* but the signature.                                                      *)
(***************************************************************************)
C10_OnlySetChangesTheRecord ==
    [][/\ last'.op = "set" => IsSucc(seq, seq')
       /\ last'.op \in {"setUDP", "setTCP"} =>
            \/ seq' = seq /\ entries' = entries /\ signature' = signature
            \/ seq' = PlusOne(PlusOne(seq))
       /\ last'.op \notin SetOps => seq' = seq /\ entries' = entries
       /\ last'.op \notin SetOps \cup {"encodeWithKey", "sign"} =>
            signature' = signature]_vars

\* encode with a private key has stored a signature on a record whose
\* sequence number set has raised
C10_Witness ==
    /\ last.op = "encodeWithKey"
    /\ last.err = "none"
    /\ signature # NoSig
    /\ seq = <<2>>

====
